---- MODULE Spec2Model ----
(***************************************************************************)
(* Model of scripts/util/vm-optimize.py: the rule pass optimize_xml over a *)
(* libvirt domain document.                                                *)
(*                                                                         *)
(* A document is a tree of nodes [tag, attrs, kids, text].  attrs is a     *)
(* function from the attribute names that are present to their values, so  *)
(* an absent attribute is a name outside DOMAIN attrs.  Strings the code   *)
(* looks into (the target's dev, the vcpu text, the cores attribute) are   *)
(* sequences of one-character strings; every other value is a string.      *)
(* A node inside the tree is addressed by its path, the sequence of child  *)
(* indices leading to it from the root.                                    *)
(***************************************************************************)
EXTENDS Integers, Sequences, FiniteSets, TLC

\* ------------------------------------------------------------------------
\* Bounds of the explored inputs
\* ------------------------------------------------------------------------
MaxDisks == 2
MaxVideos == 2
MaxSiblings == 3
MaxIfaces == 2
MaxGraphics == 2
MaxCalls == 2

\* ------------------------------------------------------------------------
\* Document model (lxml.etree)
\* ------------------------------------------------------------------------
NoAttrs == [k \in {} |-> ""]

NoText == <<>>

Node(tag, attrs, kids, text) ==
  [tag |-> tag, attrs |-> attrs, kids |-> kids, text |-> text]

Leaf(tag, attrs) == Node(tag, attrs, <<>>, NoText)

\* element.get(key, default)
get(node, key, default) ==
  IF key \in DOMAIN node.attrs THEN node.attrs[key] ELSE default

\* mutant: the attribute is taken to be absent whatever the element holds
lacks_always(node, key) == TRUE

\* element.get(key) is None
lacks(node, key) == key \notin DOMAIN node.attrs

\* element.set(key, value)
set(node, key, value) ==
  [node EXCEPT !.attrs =
     [k \in (DOMAIN node.attrs) \cup {key} |->
        IF k = key THEN value ELSE node.attrs[k]]]

\* element.find(tag): index of the first child with that tag, 0 for None
find(node, tag) ==
  IF \E i \in 1..Len(node.kids) : node.kids[i].tag = tag
  THEN CHOOSE i \in 1..Len(node.kids) :
         /\ node.kids[i].tag = tag
         /\ \A j \in 1..(i - 1) : node.kids[j].tag # tag
  ELSE 0

\* etree.SubElement(parent, tag): a new empty last child
SubElement(parent, tag) ==
  [parent EXCEPT !.kids = Append(parent.kids, Leaf(tag, NoAttrs))]

\* root.append(elem)
append(parent, elem) == [parent EXCEPT !.kids = Append(parent.kids, elem)]

\* parent.kids[i].addnext(elem): elem becomes the sibling right after child i
addnext(parent, i, elem) ==
  [parent EXCEPT !.kids =
     SubSeq(parent.kids, 1, i) \o <<elem>> \o
     SubSeq(parent.kids, i + 1, Len(parent.kids))]

RECURSIVE GetAt(_, _)
GetAt(node, path) ==
  IF path = <<>> THEN node ELSE GetAt(node.kids[Head(path)], Tail(path))

RECURSIVE SetAt(_, _, _)
SetAt(node, path, new) ==
  IF path = <<>> THEN new
  ELSE [node EXCEPT !.kids[Head(path)] =
          SetAt(node.kids[Head(path)], Tail(path), new)]

\* Paths of node and all its descendants, in document order
RECURSIVE Descendants(_, _)
RECURSIVE KidsDescendants(_, _, _)
Descendants(node, path) == <<path>> \o KidsDescendants(node, path, 1)

KidsDescendants(node, path, i) ==
  IF i > Len(node.kids) THEN <<>>
  ELSE Descendants(node.kids[i], Append(path, i)) \o
       KidsDescendants(node, path, i + 1)

\* root.xpath("//tag"): paths of every element with that tag, document order
xpath(root, tag) ==
  SelectSeq(Descendants(root, <<>>), LAMBDA p : GetAt(root, p).tag = tag)

\* root.xpath("//tag[@key='value']")
xpathAttr(root, tag, key, value) ==
  SelectSeq(xpath(root, tag),
            LAMBDA p : /\ key \in DOMAIN GetAt(root, p).attrs
                       /\ GetAt(root, p).attrs[key] = value)

\* ------------------------------------------------------------------------
\* Text: the document with or without its leading <?xml ...?> declaration
\* ------------------------------------------------------------------------
\* etree.fromstring(xml_str.encode()): the declaration is not part of the tree
fromstring(xml_str) == xml_str.root

\* etree.tostring(root, encoding='unicode', pretty_print=True): no declaration
tostring(root) == [decl |-> FALSE, root |-> root]

\* optimized.startswith('<?xml')
startswith_xml(text) == text.decl

\* '<?xml version="1.0" encoding="UTF-8"?>\n' + optimized
add_declaration(text) == [text EXCEPT !.decl = TRUE]

\* ------------------------------------------------------------------------
\* Strings read character by character
\* ------------------------------------------------------------------------
Digits == {"0", "1", "2", "3", "4", "5", "6", "7", "8", "9"}

DigitVal(c) ==
  CASE c = "0" -> 0 [] c = "1" -> 1 [] c = "2" -> 2 [] c = "3" -> 3
    [] c = "4" -> 4 [] c = "5" -> 5 [] c = "6" -> 6 [] c = "7" -> 7
    [] c = "8" -> 8 [] c = "9" -> 9

DigitChar(d) ==
  CASE d = 0 -> "0" [] d = 1 -> "1" [] d = 2 -> "2" [] d = 3 -> "3"
    [] d = 4 -> "4" [] d = 5 -> "5" [] d = 6 -> "6" [] d = 7 -> "7"
    [] d = 8 -> "8" [] d = 9 -> "9"

\* str.strip(), as int() applies it to its argument
RECURSIVE lstrip(_)
lstrip(s) == IF s # <<>> /\ Head(s) = " " THEN lstrip(Tail(s)) ELSE s

RECURSIVE rstrip(_)
rstrip(s) ==
  IF s # <<>> /\ s[Len(s)] = " " THEN rstrip(SubSeq(s, 1, Len(s) - 1)) ELSE s

strip(s) == rstrip(lstrip(s))

RECURSIVE DigitsValue(_, _)
DigitsValue(s, acc) ==
  IF s = <<>> THEN acc ELSE DigitsValue(Tail(s), 10 * acc + DigitVal(Head(s)))

\* int(s) for a str s: surrounding blanks and one sign are accepted, then
\* digits only; anything else raises ValueError
int(s) ==
  LET t == strip(s)
      signed == t # <<>> /\ Head(t) \in {"+", "-"}
      body == IF signed THEN Tail(t) ELSE t
      ok == body # <<>> /\ \A i \in 1..Len(body) : body[i] \in Digits
      mag == IF ok THEN DigitsValue(body, 0) ELSE 0
  IN  [ok |-> ok,
       val |-> IF signed /\ Head(t) = "-" THEN 0 - mag ELSE mag]

RECURSIVE NatStr(_)
NatStr(n) ==
  IF n < 10 THEN <<DigitChar(n)>>
  ELSE Append(NatStr(n \div 10), DigitChar(n % 10))

\* str(n) for an int n
str(n) == IF n < 0 THEN <<"-">> \o NatStr(0 - n) ELSE NatStr(n)

\* mutant: the first two characters are replaced whatever they are
re_sub_any_prefix(old_dev) ==
  IF Len(old_dev) >= 2
  THEN <<"v", "d">> \o SubSeq(old_dev, 3, Len(old_dev))
  ELSE old_dev

\* mutant: only the sd prefix is rewritten
re_sub_sd_only(old_dev) ==
  IF Len(old_dev) >= 2 /\ old_dev[1] = "s" /\ old_dev[2] = "d"
  THEN <<"v", "d">> \o SubSeq(old_dev, 3, Len(old_dev))
  ELSE old_dev

\* re.sub(r'^[hs]d', 'vd', old_dev)
re_sub_hs_d(old_dev) ==
  IF Len(old_dev) >= 2 /\ old_dev[1] \in {"h", "s"} /\ old_dev[2] = "d"
  THEN <<"v", "d">> \o SubSeq(old_dev, 3, Len(old_dev))
  ELSE old_dev

\* ------------------------------------------------------------------------
\* optimize_xml: the rule pass
\*
\* The locals of one call are the frame [root, changes, new_dev, exc]:
\* new_dev is the local of that name, unbound until its first assignment;
\* exc is "" while the call runs normally and the exception's name once one
\* was raised (nothing after the raise executes).
\* ------------------------------------------------------------------------
Unbound == [bound |-> FALSE, val |-> <<>>]

Bound(v) == [bound |-> TRUE, val |-> v]

NoExc == ""

\* changes.append((key, old_value, new_value)); the f-strings are kept as
\* the tuple of their interpolated parts
record(st, key, before, after) ==
  [st EXCEPT !.changes = Append(st.changes, <<key, before, after>>)]

raise(st, name) == [st EXCEPT !.exc = name]

\* a statement that replaces the element at path p
update(st, p, node) == [st EXCEPT !.root = SetAt(st.root, p, node)]

\* mutant: every bus but virtio counts as legacy
LegacyBus_usb == {"ide", "sata", "scsi", "usb", "unknown"}

LegacyBus == {"ide", "sata", "scsi"}

\* if target is not None: ... (disk_bus)
disk_bus(st, p) ==
  LET disk == GetAt(st.root, p)
      t == find(disk, "target")
  IN  IF t = 0 THEN st
      ELSE
        LET tp == Append(p, t)
            target == GetAt(st.root, tp)
            old_bus == get(target, "bus", "unknown")
            old_dev == get(target, "dev", <<>>)
            new_dev == IF old_dev # <<>> THEN Bound(re_sub_hs_d(old_dev))
                       ELSE st.new_dev
            target1 == set(target, "bus", "virtio")
            target2 == IF old_dev # <<>> THEN set(target1, "dev", new_dev.val)
                       ELSE target1
            st1 == [update(st, tp, target2) EXCEPT !.new_dev = new_dev]
        IN  IF old_bus \notin LegacyBus THEN st
            ELSE IF ~new_dev.bound THEN raise(st1, "UnboundLocalError")
            ELSE record(st1, "disk_bus", <<old_bus, old_dev>>,
                        <<"virtio", new_dev.val>>)

\* mutant: only the cache mode is compared
needs_change_cache_only(old_cache, old_discard, old_io) ==
  old_cache # "writeback"

\* mutant: the comparison with the target triple is dropped
needs_change_always(old_cache, old_discard, old_io) == TRUE

needs_change(old_cache, old_discard, old_io) ==
  old_cache # "writeback" \/ old_discard # "unmap" \/ old_io # "threads"

\* if driver is not None: ... (disk_cache)
disk_cache(st, p) ==
  LET disk == GetAt(st.root, p)
      d == find(disk, "driver")
  IN  IF d = 0 THEN st
      ELSE
        LET dp == Append(p, d)
            driver == GetAt(st.root, dp)
            old_cache == get(driver, "cache", "default")
            old_discard == get(driver, "discard", "none")
            old_io == get(driver, "io", "default")
            driver1 == set(set(set(driver, "cache", "writeback"),
                               "discard", "unmap"), "io", "threads")
        IN  IF needs_change(old_cache, old_discard, old_io)
            THEN record(update(st, dp, driver1), "disk_cache",
                        <<old_cache, old_discard, old_io>>,
                        <<"writeback", "unmap", "threads">>)
            ELSE st

\* mutant: the driver is handled before the target
disk_body_cache_first(st, p) ==
  LET st1 == disk_cache(st, p)
  IN  IF st1.exc # NoExc THEN st1 ELSE disk_bus(st1, p)

\* body of: for disk in root.xpath("//disk[@device='disk']")
disk_body(st, p) ==
  LET st1 == disk_bus(st, p)
  IN  IF st1.exc # NoExc THEN st1 ELSE disk_cache(st1, p)

\* mutant: a virtio model is upgraded again
LegacyNic_virtio == {"rtl8139", "e1000", "e1000e", "virtio"}

\* mutant: the e1000e model is forgotten
LegacyNic_no_e1000e == {"rtl8139", "e1000"}

LegacyNic == {"rtl8139", "e1000", "e1000e"}

\* body of: for iface in root.xpath("//interface")
nic_body(st, p) ==
  LET iface == GetAt(st.root, p)
      m == find(iface, "model")
  IN  IF m = 0 THEN st
      ELSE
        LET mp == Append(p, m)
            model == GetAt(st.root, mp)
            old_type == get(model, "type", "unknown")
        IN  IF old_type \in LegacyNic
            THEN record(update(st, mp, set(model, "type", "virtio")),
                        "nic_model", <<old_type>>, <<"virtio">>)
            ELSE st

\* mutant: a virtio model is handled like the old ones
LegacyVideo_virtio == {"qxl", "vga", "cirrus", "virtio"}

LegacyVideo == {"qxl", "vga", "cirrus"}

\* body of: for video in root.xpath("//video")
video_body(st, p) ==
  LET video == GetAt(st.root, p)
      m == find(video, "model")
  IN  IF m = 0 THEN st
      ELSE
        LET mp == Append(p, m)
            model == GetAt(st.root, mp)
            old_type == get(model, "type", "unknown")
            model1 == set(set(set(model, "type", "virtio"), "heads", "1"),
                          "primary", "yes")
            a == find(model1, "acceleration")
            model2 == IF a = 0 THEN SubElement(model1, "acceleration")
                      ELSE model1
            ai == IF a = 0 THEN Len(model2.kids) ELSE a
            old_accel == get(model2.kids[ai], "accel3d", "no")
            model3 == [model2 EXCEPT !.kids[ai] = set(@, "accel3d", "yes")]
            st1 == record(update(st, mp, model3),
                          "video_model", <<old_type>>, <<"virtio">>)
        IN  IF old_type \notin LegacyVideo THEN st
            ELSE IF old_accel # "yes"
            THEN record(st1, "video_accel", <<"accel3d=", old_accel>>,
                        <<"accel3d=", "yes">>)
            ELSE st1

\* body of: for graphics in root.xpath("//graphics[@type='spice']")
spice_body(st, p) ==
  LET graphics == GetAt(st.root, p)
      g == find(graphics, "gl")
      graphics1 == IF g = 0 THEN SubElement(graphics, "gl") ELSE graphics
      gi == IF g = 0 THEN Len(graphics1.kids) ELSE g
      gl == graphics1.kids[gi]
      old_enable == get(gl, "enable", "no")
      gl1 == set(gl, "enable", "yes")
      gl2 == IF lacks(gl1, "rendernode")
             THEN set(gl1, "rendernode", "/dev/dri/renderD128")
             ELSE gl1
      st1 == update(st, p, graphics1)
  IN  IF old_enable # "yes"
      THEN record(update(st1, Append(p, gi), gl2),
                  "spice_gl", <<"enable=", old_enable>>, <<"enable=", "yes">>)
      ELSE st1

\* for disk in root.xpath("//disk[@device='disk']"), over the node list the query returned
RECURSIVE disk_loop(_, _)
disk_loop(st, paths) ==
  IF paths = <<>> \/ st.exc # NoExc THEN st
  ELSE disk_loop(disk_body(st, Head(paths)), Tail(paths))

\* for iface in root.xpath("//interface"), over the node list the query returned
RECURSIVE nic_loop(_, _)
nic_loop(st, paths) ==
  IF paths = <<>> \/ st.exc # NoExc THEN st
  ELSE nic_loop(nic_body(st, Head(paths)), Tail(paths))

\* for video in root.xpath("//video"), over the node list the query returned
RECURSIVE video_loop(_, _)
video_loop(st, paths) ==
  IF paths = <<>> \/ st.exc # NoExc THEN st
  ELSE video_loop(video_body(st, Head(paths)), Tail(paths))

\* for graphics in root.xpath("//graphics[@type='spice']"), over the node list the query returned
RECURSIVE spice_loop(_, _)
spice_loop(st, paths) ==
  IF paths = <<>> \/ st.exc # NoExc THEN st
  ELSE spice_loop(spice_body(st, Head(paths)), Tail(paths))

\* topology.set("sockets", "1") ... topology.set("threads", "1")
set_topology(topology, vcpu_count) ==
  set(set(set(set(set(topology, "sockets", "1"), "dies", "1"),
              "clusters", "1"), "cores", str(vcpu_count)), "threads", "1")

topology_after(vcpu_count) == <<"1 socket x ", str(vcpu_count), " cores x 1 thread">>

\* if cpu is not None: ... , cpu being child c of the root
cpu_present(st, c) ==
  LET cpu == st.root.kids[c]
      old_mode == get(cpu, "mode", "custom")
      cpu1 == set(set(set(cpu, "mode", "host-passthrough"), "check", "none"),
                  "migratable", "on")
      st1 == IF old_mode # "host-passthrough"
             THEN record(update(st, <<c>>, cpu1), "cpu_mode",
                         <<old_mode>>, <<"host-passthrough">>)
             ELSE st
      v == find(st1.root, "vcpu")
      text == st1.root.kids[v].text
      parsed == int(IF text # NoText THEN text ELSE <<"1">>)
      vcpu_count == parsed.val
      cpu2 == st1.root.kids[c]
      cpu3 == SubElement(cpu2, "topology")
      cpu4 == [cpu3 EXCEPT !.kids[Len(cpu3.kids)] = set_topology(@, vcpu_count)]
  IN  IF v = 0 THEN st1
      ELSE IF ~parsed.ok THEN raise(st1, "ValueError")
      ELSE IF find(cpu2, "topology") = 0
      THEN record(update(st1, <<c>>, cpu4), "cpu_topology",
                  <<"none">>, topology_after(vcpu_count))
      ELSE st1

\* mutant: the created topology ignores the vcpu count
new_cpu_one_core(vcpu_count) ==
  LET cpu == SubElement(Leaf("cpu", [mode |-> "host-passthrough",
                                     check |-> "none",
                                     migratable |-> "on"]), "topology")
  IN  [cpu EXCEPT !.kids[1] = set_topology(@, 1)]

\* etree.Element("cpu", mode=..., check=..., migratable=...) with its topology
new_cpu(vcpu_count) ==
  LET cpu == SubElement(Leaf("cpu", [mode |-> "host-passthrough",
                                     check |-> "none",
                                     migratable |-> "on"]), "topology")
  IN  [cpu EXCEPT !.kids[1] = set_topology(@, vcpu_count)]

\* mutant: the cpu node is always appended
insert_cpu_append(root, v, cpu) == append(root, cpu)

\* vcpu_elem.addnext(cpu) if vcpu_elem is not None, else root.append(cpu)
insert_cpu(root, v, cpu) ==
  IF v # 0 THEN addnext(root, v, cpu) ELSE append(root, cpu)

\* else: create the cpu element
cpu_absent(st) ==
  LET v == find(st.root, "vcpu")
      text == st.root.kids[v].text
      parsed == int(text)
      vcpu_count == IF v # 0 THEN parsed.val ELSE 1
      st1 == [st EXCEPT !.root = insert_cpu(st.root, v, new_cpu(vcpu_count))]
  IN  IF v # 0 /\ text = NoText THEN raise(st, "TypeError")
      ELSE IF v # 0 /\ ~parsed.ok THEN raise(st, "ValueError")
      ELSE record(record(st1, "cpu_mode", <<"default">>, <<"host-passthrough">>),
                  "cpu_topology", <<"none">>, topology_after(vcpu_count))

\* cpu = root.find("cpu"); if cpu is not None: ... else: ...
cpu_rules(st) ==
  LET c == find(st.root, "cpu")
  IN  IF c # 0 THEN cpu_present(st, c) ELSE cpu_absent(st)

\* ------------------------------------------------------------------------
\* Input documents
\* ------------------------------------------------------------------------
\* attrs of an element whose attributes are the pairs <<name, value>> in ps
Attrs(ps) ==
  [k \in {q[1] : q \in ps} |-> (CHOOSE q \in ps : q[1] = k)[2]]

\* every choice of at most one value per attribute: as maps each attribute
\* name to the values it may take when present
RECURSIVE AttrChoices(_, _)
AttrChoices(names, vals) ==
  IF names = {} THEN {{}}
  ELSE LET n == CHOOSE x \in names : TRUE
           rest == AttrChoices(names \ {n}, vals)
       IN  rest \cup {r \cup {<<n, v>>} : r \in rest, v \in vals[n]}

AttrSets(names, vals) == {Attrs(ps) : ps \in AttrChoices(names, vals)}

\* sequences over S of length lo..hi
SeqsOf(S, lo, hi) == UNION {[1..n -> S] : n \in lo..hi}

\* an optional child: no child, or one of the nodes in S
Opt(S) == {<<>>} \cup {<<n>> : n \in S}

Domain(kids) == Node("domain", NoAttrs, kids, NoText)

Devices(kids) == Node("devices", NoAttrs, kids, NoText)

hda == <<"h", "d", "a">>
sdb == <<"s", "d", "b">>
vda == <<"v", "d", "a">>
xvda == <<"x", "v", "d", "a">>

\* one disk, every shape of it
Targets ==
  {Leaf("target", a) :
     a \in AttrSets({"bus", "dev"},
                    [bus |-> {"ide", "sata", "scsi", "virtio", "usb"},
                     dev |-> {hda, sdb, xvda, <<>>}])}

Drivers ==
  {Leaf("driver", a) :
     a \in AttrSets({"cache", "discard", "io"},
                    [cache |-> {"writeback", "none"},
                     discard |-> {"unmap"},
                     io |-> {"threads", "native"}])}

Disks ==
  {Node("disk", a, t \o d, NoText) :
     a \in AttrSets({"device"}, [device |-> {"disk", "cdrom"}]),
     t \in Opt(Targets), d \in Opt(Drivers)}

\* several disks, the shapes that interact across disks
FewDisks ==
  {Node("disk", [device |-> "disk"], t \o d, NoText) :
     t \in Opt({Leaf("target", [bus |-> "ide", dev |-> hda]),
                Leaf("target", [bus |-> "sata"]),
                Leaf("target", [bus |-> "virtio", dev |-> vda])}),
     d \in Opt({Leaf("driver", NoAttrs),
                Leaf("driver", [cache |-> "writeback", discard |-> "unmap",
                                io |-> "threads"])})}
  \cup {Node("disk", [device |-> "cdrom"],
             <<Leaf("target", [bus |-> "ide", dev |-> hda]),
               Leaf("driver", NoAttrs)>>, NoText)}

DiskDocs ==
  {Domain(<<Devices(<<d>>)>>) : d \in Disks}
  \cup {Domain(<<Devices(ds)>>) : ds \in SeqsOf(FewDisks, 2, MaxDisks)}

\* interfaces
Interfaces ==
  {Node("interface", NoAttrs, m, NoText) :
     m \in Opt({Leaf("model", a) :
                  a \in AttrSets({"type"},
                         [type |-> {"rtl8139", "e1000", "e1000e", "virtio",
                                    "ne2k_pci"}])})}

NicDocs == {Domain(<<Devices(is)>>) : is \in SeqsOf(Interfaces, 1, MaxIfaces)}

\* video devices
Accelerations ==
  {Leaf("acceleration", a) :
     a \in AttrSets({"accel3d"}, [accel3d |-> {"yes", "no"}])}

Videos ==
  {Node("video", NoAttrs, m, NoText) :
     m \in Opt({Node("model", a, k, NoText) :
                  a \in AttrSets({"type"},
                         [type |-> {"qxl", "vga", "cirrus", "virtio", "bochs"}]),
                  k \in Opt(Accelerations)})}

FewVideos ==
  {Node("video", NoAttrs, <<Node("model", [type |-> t], k, NoText)>>, NoText) :
     t \in {"qxl", "virtio"},
     k \in Opt({Leaf("acceleration", [accel3d |-> "no"]),
                Leaf("acceleration", [accel3d |-> "yes"])})}

VideoDocs ==
  {Domain(<<Devices(<<v>>)>>) : v \in Videos}
  \cup {Domain(<<Devices(vs)>>) : vs \in SeqsOf(FewVideos, 2, MaxVideos)}

\* graphics devices
Graphics ==
  {Node("graphics", a, g, NoText) :
     a \in AttrSets({"type"}, [type |-> {"spice", "vnc"}]),
     g \in Opt({Leaf("gl", b) :
                  b \in AttrSets({"enable", "rendernode"},
                         [enable |-> {"yes", "no"},
                          rendernode |-> {"/dev/dri/renderD129"}])})}

FewGraphics ==
  {Node("graphics", [type |-> "spice"], <<>>, NoText),
   Node("graphics", [type |-> "spice"],
        <<Leaf("gl", [enable |-> "yes"])>>, NoText),
   Node("graphics", [type |-> "vnc"], <<>>, NoText)}

GraphicsDocs ==
  {Domain(<<Devices(<<g>>)>>) : g \in Graphics}
  \cup {Domain(<<Devices(gs)>>) : gs \in SeqsOf(FewGraphics, 2, MaxGraphics)}

\* vcpu and cpu, every shape of them
Vcpus ==
  {Node("vcpu", NoAttrs, <<>>, text) :
     text \in {NoText, <<"4">>, <<"1", "2">>, <<" ", "2", " ">>, <<"0">>,
               <<"-", "2">>, <<"a", "b">>, <<" ">>}}

Topologies ==
  {Leaf("topology", [sockets |-> "1", dies |-> "1", clusters |-> "1",
                     cores |-> <<"4">>, threads |-> "1"]),
   Leaf("topology", [sockets |-> "2", cores |-> <<"2">>, threads |-> "1"])}

Cpus ==
  {Node("cpu", a, t, NoText) :
     a \in AttrSets({"mode"},
                    [mode |-> {"host-passthrough", "host-model", "custom"}]),
     t \in Opt(Topologies)}

Name == Leaf("name", NoAttrs)

CpuDocs ==
  {Domain(<<Name>> \o v \o c \o <<Devices(<<>>)>>) :
     v \in Opt(Vcpus), c \in Opt(Cpus)}

\* the order of the root's children
Siblings ==
  {Name, Devices(<<>>), Node("vcpu", NoAttrs, <<>>, <<"4">>),
   Node("vcpu", NoAttrs, <<>>, <<"2">>),
   Node("cpu", [mode |-> "host-passthrough"], <<>>, NoText)}

SiblingDocs == {Domain(ks) : ks \in SeqsOf(Siblings, 0, MaxSiblings)}

\* every combination of present and absent nodes, none of them optimized
MixedDocs ==
  {Domain(v \o c \o <<Devices(d \o i \o w \o g)>>) :
     v \in Opt({Node("vcpu", NoAttrs, <<>>, <<"4">>)}),
     c \in Opt({Node("cpu", [mode |-> "custom"], t, NoText) :
                  t \in Opt({Leaf("topology", [sockets |-> "1",
                                               cores |-> <<"4">>,
                                               threads |-> "1"])})}),
     d \in Opt({Node("disk", [device |-> "disk"], t \o r, NoText) :
                  t \in Opt({Leaf("target", [bus |-> "sata", dev |-> sdb])}),
                  r \in Opt({Leaf("driver", [cache |-> "none"])})}),
     i \in Opt({Node("interface", NoAttrs, m, NoText) :
                  m \in Opt({Leaf("model", [type |-> "e1000"])})}),
     w \in Opt({Node("video", NoAttrs, m, NoText) :
                  m \in Opt({Node("model", [type |-> "qxl"], a, NoText) :
                               a \in Opt({Leaf("acceleration", NoAttrs)})})}),
     g \in Opt({Node("graphics", [type |-> "spice"], l, NoText) :
                  l \in Opt({Leaf("gl", [enable |-> "no"])})})}

\* every combination of present and absent nodes, all of them optimized
OptimizedDocs ==
  {Domain(v \o <<Node("cpu", a, <<t>>, NoText), Devices(d \o i \o w \o g)>>) :
     v \in Opt({Node("vcpu", NoAttrs, <<>>, <<"4">>),
                Node("vcpu", NoAttrs, <<>>, <<"a", "b">>)}),
     a \in {[mode |-> "host-passthrough"],
            [mode |-> "host-passthrough", check |-> "none",
             migratable |-> "on"]},
     t \in Topologies,
     d \in Opt({Node("disk", [device |-> "disk"],
                     <<Leaf("target", [bus |-> "virtio", dev |-> vda]),
                       Leaf("driver", [cache |-> "writeback",
                                       discard |-> "unmap",
                                       io |-> "threads"])>>, NoText)}),
     i \in Opt({Node("interface", NoAttrs,
                     <<Leaf("model", [type |-> "virtio"])>>, NoText)}),
     w \in Opt({Node("video", NoAttrs,
                     <<Node("model", [type |-> "virtio"],
                            <<Leaf("acceleration", [accel3d |-> "yes"])>>,
                            NoText)>>, NoText)}),
     g \in Opt({Node("graphics", [type |-> "spice"],
                     <<Leaf("gl", [enable |-> "yes"])>>, NoText)})}

Docs ==
  DiskDocs \cup NicDocs \cup VideoDocs \cup GraphicsDocs \cup CpuDocs
  \cup SiblingDocs \cup MixedDocs \cup OptimizedDocs

\* ------------------------------------------------------------------------
\* State
\* ------------------------------------------------------------------------
VARIABLES
  pc,        \* where the current call of optimize_xml stands
  xml_str,   \* the argument of the current call
  root,      \* local root, None before it is parsed
  changes,   \* local changes
  new_dev,   \* local new_dev
  exc,       \* the exception the call raised, NoExc if none
  returned,  \* (optimized, changes) of the calls that returned, oldest first
  mpc,          \* main: the statement main is at, "none" when main is not run
  args,         \* main: the parsed command line
  conn,         \* main: the libvirt connection
  closes,       \* how many times conn.close() was called
  persisted,    \* the configuration libvirt holds for the VM
  original_xml, \* main: original_xml
  has_changes,  \* main: has_changes
  diff,         \* show_changes: diff
  stdout,       \* what show_changes printed, one entry per item
  typed,        \* what the confirmation prompt read
  confirm,      \* main: confirm
  defines,      \* the documents conn.defineXML was called with
  success,      \* main: success
  exit          \* how main ended

callVars == <<pc, xml_str, root, changes, new_dev, exc, returned>>

mainVars == <<mpc, args, conn, closes, persisted, original_xml, has_changes,
              diff, stdout, typed, confirm, defines, success, exit>>

vars == <<pc, xml_str, root, changes, new_dev, exc, returned,
          mpc, args, conn, closes, persisted, original_xml, has_changes,
          diff, stdout, typed, confirm, defines, success, exit>>

None == Leaf("None", NoAttrs)

Frame == [root |-> root, changes |-> changes, new_dev |-> new_dev, exc |-> exc]

\* the locals after a statement block; a raise ends the call
Continue(st, next) ==
  /\ root' = st.root
  /\ changes' = st.changes
  /\ new_dev' = st.new_dev
  /\ exc' = st.exc
  /\ pc' = IF st.exc # NoExc THEN "raised" ELSE next
  /\ UNCHANGED <<xml_str, returned>>
  /\ UNCHANGED mainVars

NoArgs == [vm |-> FALSE, dry_run |-> FALSE, yes |-> FALSE]

NoInput == [kind |-> "none", line |-> <<>>]

Running == [kind |-> "running", status |-> 0]

\* main's variables before its first statement
MainLocals ==
  /\ conn = "none"
  /\ closes = 0
  /\ original_xml = [decl |-> FALSE, root |-> None]
  /\ has_changes = FALSE
  /\ diff = <<>>
  /\ stdout = <<>>
  /\ typed = NoInput
  /\ confirm = <<>>
  /\ defines = <<>>
  /\ success = FALSE
  /\ exit = Running

Init ==
  /\ mpc = "none"
  /\ args = NoArgs
  /\ persisted = [decl |-> FALSE, root |-> None]
  /\ MainLocals
  /\ pc = "parse"
  /\ xml_str \in {[decl |-> FALSE, root |-> d] : d \in Docs}
  /\ root = None
  /\ changes = <<>>
  /\ new_dev = Unbound
  /\ exc = NoExc
  /\ returned = <<>>

\* root = etree.fromstring(xml_str.encode()); changes = []
Parse ==
  /\ pc = "parse"
  /\ Continue([Frame EXCEPT !.root = fromstring(xml_str), !.changes = <<>>],
              "disk")

\* Disk optimization
DiskRules ==
  /\ pc = "disk"
  /\ Continue(disk_loop(Frame, xpathAttr(root, "disk", "device", "disk")), "nic")

\* NIC optimization
NicRules ==
  /\ pc = "nic"
  /\ Continue(nic_loop(Frame, xpath(root, "interface")), "video")

\* Video optimization
VideoRules ==
  /\ pc = "video"
  /\ Continue(video_loop(Frame, xpath(root, "video")), "spice")

\* SPICE GL optimization
SpiceRules ==
  /\ pc = "spice"
  /\ Continue(spice_loop(Frame, xpathAttr(root, "graphics", "type", "spice")), "cpu")

\* CPU optimization
CpuRules ==
  /\ pc = "cpu"
  /\ Continue(cpu_rules(Frame), "tostring")

\* Generate optimized XML, ensure the declaration, return
Return ==
  /\ pc = "tostring"
  /\ LET optimized == tostring(root)
         declared == IF ~startswith_xml(optimized)
                     THEN add_declaration(optimized) ELSE optimized
     IN  returned' = Append(returned, <<declared, changes>>)
  /\ pc' = "returned"
  /\ UNCHANGED <<xml_str, root, changes, new_dev, exc>>
  /\ UNCHANGED mainVars

\* optimize_xml is called again, on the document the last call returned
CallAgain ==
  /\ mpc = "none"
  /\ pc = "returned"
  /\ Len(returned) < MaxCalls
  /\ xml_str' = returned[Len(returned)][1]
  /\ pc' = "parse"
  /\ root' = None
  /\ changes' = <<>>
  /\ new_dev' = Unbound
  /\ exc' = NoExc
  /\ UNCHANGED returned
  /\ UNCHANGED mainVars

Next ==
  \/ Parse
  \/ DiskRules
  \/ NicRules
  \/ VideoRules
  \/ SpiceRules
  \/ CpuRules
  \/ Return
  \/ CallAgain

Spec == Init /\ [][Next]_vars

TypeOK ==
  /\ pc \in {"idle", "parse", "disk", "nic", "video", "spice", "cpu",
             "tostring", "returned", "raised"}
  /\ Len(returned) <= MaxCalls

\* ------------------------------------------------------------------------
\* Observations used by the properties
\* ------------------------------------------------------------------------
\* the document the current call was given
Input == fromstring(xml_str)

Key(change) == change[1]

Before(change) == change[2]

After(change) == change[3]

Keys(chs) == [i \in 1..Len(chs) |-> Key(chs[i])]

Only(chs, keys) == SelectSeq(chs, LAMBDA ch : Key(ch) \in keys)

HasKid(node, tag) == \E i \in 1..Len(node.kids) : node.kids[i].tag = tag

FirstKid(node, tag) == node.kids[find(node, tag)]

AfterDiskRules == pc \in {"nic", "video", "spice", "cpu", "tostring", "returned"}

\* ------------------------------------------------------------------------
\* C1
\* ------------------------------------------------------------------------
InLaterCall == returned # <<>> /\ ~(pc = "returned" /\ Len(returned) = 1)

\* C1: once a call of optimize_xml has returned, every further call on the
\* document the previous call returned completes and records no change: its
\* change list is empty at every point of the call and it never raises.
C1_Idempotent == InLaterCall => (changes = <<>> /\ pc # "raised")

\* a second call has returned after a first call that fired every rule key
C1_Witness ==
  /\ pc = "returned"
  /\ Len(returned) = 2
  /\ {Key(returned[1][2][i]) : i \in 1..Len(returned[1][2])} =
       {"disk_bus", "disk_cache", "nic_model", "video_model", "video_accel",
        "spice_gl", "cpu_mode", "cpu_topology"}
  /\ returned[2][2] = <<>>

\* ------------------------------------------------------------------------
\* C2
\* ------------------------------------------------------------------------
RuleIndex(key) ==
  CASE key = "disk_bus" -> 1 [] key = "disk_cache" -> 2
    [] key = "nic_model" -> 3 [] key = "video_model" -> 4
    [] key = "video_accel" -> 5 [] key = "spice_gl" -> 6
    [] key = "cpu_mode" -> 7 [] key = "cpu_topology" -> 8

SectionIndex(key) ==
  CASE key \in {"disk_bus", "disk_cache"} -> 1
    [] key = "nic_model" -> 2
    [] key \in {"video_model", "video_accel"} -> 3
    [] key = "spice_gl" -> 4
    [] key = "cpu_mode" -> 5
    [] key = "cpu_topology" -> 6

\* C2 as claimed: in the returned change list no record of a later rule key
\* comes before a record of an earlier rule key.
C2_RuleOrder ==
  pc = "returned" =>
    \A i, j \in 1..Len(changes) :
      i < j => RuleIndex(Key(changes[i])) <= RuleIndex(Key(changes[j]))

\* the disk records a document calls for, disk by disk in document order:
\* the disk's bus record if its bus is a legacy one, then its cache record
\* if its driver differs from the target triple
RECURSIVE DiskKeysInOrder(_, _)
DiskKeysInOrder(doc, disks) ==
  IF disks = <<>> THEN <<>>
  ELSE LET disk == GetAt(doc, Head(disks))
           bus == IF HasKid(disk, "target")
                     /\ "bus" \in DOMAIN FirstKid(disk, "target").attrs
                     /\ FirstKid(disk, "target").attrs["bus"]
                          \in {"ide", "sata", "scsi"}
                  THEN <<"disk_bus">> ELSE <<>>
           cache == IF HasKid(disk, "driver")
                       /\ FirstKid(disk, "driver").attrs #
                            [cache |-> "writeback", discard |-> "unmap",
                             io |-> "threads"]
                    THEN <<"disk_cache">> ELSE <<>>
       IN  bus \o cache \o DiskKeysInOrder(doc, Tail(disks))

IsDiskDisk(doc, p) ==
  /\ "device" \in DOMAIN GetAt(doc, p).attrs
  /\ GetAt(doc, p).attrs["device"] = "disk"

\* C2 as amended: the returned change list is ordered by rule section (disk,
\* nic_model, video, spice_gl, cpu_mode, cpu_topology); inside the disk
\* section the records follow the disks in document order, each disk's
\* disk_bus record right before its disk_cache record; inside the video
\* section every video_accel record directly follows a video_model record.
C2_SectionOrder ==
  pc = "returned" =>
    /\ \A i, j \in 1..Len(changes) :
         i < j => SectionIndex(Key(changes[i])) <= SectionIndex(Key(changes[j]))
    /\ Keys(Only(changes, {"disk_bus", "disk_cache"})) =
         DiskKeysInOrder(Input,
           SelectSeq(xpath(Input, "disk"), LAMBDA p : IsDiskDisk(Input, p)))
    /\ \A i \in 1..Len(changes) :
         Key(changes[i]) = "video_accel" =>
           i > 1 /\ Key(changes[i - 1]) = "video_model"

\* two disks each got a bus and a cache record, followed by the cpu records
C2_Witness ==
  /\ pc = "returned"
  /\ Keys(changes) = <<"disk_bus", "disk_cache", "disk_bus", "disk_cache",
                       "cpu_mode", "cpu_topology">>

\* ------------------------------------------------------------------------
\* C3
\* ------------------------------------------------------------------------
\* C3: optimize_xml never raises: whatever node a rule meets, the call goes
\* on to return a document and a change list.
C3_NeverRaises == pc # "raised" /\ exc = NoExc

\* ------------------------------------------------------------------------
\* C4
\* ------------------------------------------------------------------------
\* the vcpu count of a document as claimed: the first vcpu child's text when
\* it parses as a positive integer, 1 otherwise
ClaimedVcpuCount(doc) ==
  IF HasKid(doc, "vcpu")
     /\ int(FirstKid(doc, "vcpu").text).ok
     /\ int(FirstKid(doc, "vcpu").text).val >= 1
  THEN int(FirstKid(doc, "vcpu").text).val
  ELSE 1

\* C4: a call that meets a vcpu text which is no positive integer does not
\* fail on it, and whenever a call created the topology, with the cpu node
\* already there or created too, its cores attribute is the vcpu text when
\* that is a positive integer and 1 in every other case.
C4_VcpuCountDefault ==
  /\ exc \notin {"ValueError", "TypeError"}
  /\ (pc = "returned" /\ Only(changes, {"cpu_topology"}) # <<>>) =>
       FirstKid(FirstKid(root, "cpu"), "topology").attrs["cores"] =
         str(ClaimedVcpuCount(Input))

\* ------------------------------------------------------------------------
\* C5
\* ------------------------------------------------------------------------
MissingCpuCase(doc) ==
  /\ ~HasKid(doc, "cpu")
  /\ HasKid(doc, "vcpu")
  /\ int(FirstKid(doc, "vcpu").text).ok
  /\ int(FirstKid(doc, "vcpu").text).val >= 1

\* C5: when the input has a vcpu node with a positive count N and no cpu
\* node, the returned document has a cpu node with exactly mode =
\* host-passthrough, check = none, migratable = on, whose only child is a
\* topology with sockets = 1, dies = 1, clusters = 1, cores = N, threads = 1,
\* and the cpu records of the change list are cpu_mode then cpu_topology.
C5_MissingCpuInsertion ==
  (pc = "returned" /\ MissingCpuCase(Input)) =>
    /\ HasKid(root, "cpu")
    /\ FirstKid(root, "cpu") =
         Node("cpu",
              [mode |-> "host-passthrough", check |-> "none",
               migratable |-> "on"],
              <<Leaf("topology",
                     [sockets |-> "1", dies |-> "1", clusters |-> "1",
                      cores |-> str(int(FirstKid(Input, "vcpu").text).val),
                      threads |-> "1"])>>,
              NoText)
    /\ Keys(Only(changes, {"cpu_mode", "cpu_topology"})) =
         <<"cpu_mode", "cpu_topology">>

\* a vcpu count of 12 and no cpu node: the cpu node was inserted
C5_Witness ==
  /\ pc = "returned"
  /\ MissingCpuCase(Input)
  /\ FirstKid(Input, "vcpu").text = <<"1", "2">>
  /\ HasKid(root, "cpu")
  /\ FirstKid(FirstKid(root, "cpu"), "topology").attrs["cores"] = <<"1", "2">>

\* ------------------------------------------------------------------------
\* C6
\* ------------------------------------------------------------------------
RemoveAt(seq, i) == SubSeq(seq, 1, i - 1) \o SubSeq(seq, i + 1, Len(seq))

\* C6: the step that creates the cpu node puts it right after the first vcpu
\* child of the root if there is one and at the end of the root's children
\* otherwise, and the root's other children stay as they were, in order.
C6_InsertPosition ==
  [][(pc = "cpu" /\ pc' = "tostring" /\ ~HasKid(root, "cpu")) =>
       \E i \in 1..Len(root'.kids) :
         /\ root'.kids[i].tag = "cpu"
         /\ RemoveAt(root'.kids, i) = root.kids
         /\ IF HasKid(root, "vcpu")
            THEN /\ i > 1
                 /\ root.kids[i - 1].tag = "vcpu"
                 /\ \A j \in 1..(i - 2) : root.kids[j].tag # "vcpu"
            ELSE i = Len(root'.kids)]_vars

\* the cpu node was created between the vcpu node and a later sibling
C6_Witness ==
  /\ pc = "tostring"
  /\ ~HasKid(Input, "cpu")
  /\ \E i \in 2..(Len(root.kids) - 1) :
       /\ root.kids[i].tag = "cpu"
       /\ root.kids[i - 1].tag = "vcpu"
       /\ root.kids[i + 1] = Input.kids[i]

\* ------------------------------------------------------------------------
\* C7
\* ------------------------------------------------------------------------
TopologyMissing(doc) ==
  ~HasKid(doc, "cpu") \/ ~HasKid(FirstKid(doc, "cpu"), "topology")

\* C7: in the returned document the cpu node has a topology sub-node; when
\* the input's cpu node was absent or had no topology, that sub-node has
\* sockets = 1, dies = 1, clusters = 1, threads = 1 and cores = the vcpu
\* count (1 without a vcpu node); and the change list holds a cpu_topology
\* record exactly when the input's cpu node was absent or had no topology.
C7_TopologyEnsured ==
  pc = "returned" =>
    /\ HasKid(root, "cpu")
    /\ HasKid(FirstKid(root, "cpu"), "topology")
    /\ TopologyMissing(Input) =>
         LET attrs == FirstKid(FirstKid(root, "cpu"), "topology").attrs
         IN  /\ DOMAIN attrs =
                  {"sockets", "dies", "clusters", "cores", "threads"}
             /\ \A k \in {"sockets", "dies", "clusters", "threads"} :
                  attrs[k] = "1"
             /\ (~HasKid(Input, "vcpu")
                   \/ int(FirstKid(Input, "vcpu").text).val >= 1) =>
                  attrs["cores"] = str(ClaimedVcpuCount(Input))
    /\ (Only(changes, {"cpu_topology"}) # <<>>) <=> TopologyMissing(Input)

\* ------------------------------------------------------------------------
\* C8
\* ------------------------------------------------------------------------
\* the acceleration sub-nodes the video rule looks at: for each video, the
\* first acceleration child of its first model child
VideoAccels(doc) ==
  LET withAccel ==
        SelectSeq(xpath(doc, "video"),
                  LAMBDA p : /\ HasKid(GetAt(doc, p), "model")
                             /\ HasKid(FirstKid(GetAt(doc, p), "model"),
                                       "acceleration"))
  IN  [i \in 1..Len(withAccel) |->
         FirstKid(FirstKid(GetAt(doc, withAccel[i]), "model"), "acceleration")]

Enabled3d(accel) ==
  "accel3d" \in DOMAIN accel.attrs /\ accel.attrs["accel3d"] = "yes"

\* C8: in the returned document every acceleration sub-node of a video model
\* has accel3d = yes, and the change list holds one video_accel record for
\* each acceleration sub-node of the input that had not, whatever the type
\* of its video model.
C8_AccelEnabled ==
  pc = "returned" =>
    /\ \A i \in 1..Len(VideoAccels(root)) : Enabled3d(VideoAccels(root)[i])
    /\ Len(Only(changes, {"video_accel"})) >=
         Len(SelectSeq(VideoAccels(Input), LAMBDA a : ~Enabled3d(a)))

\* ------------------------------------------------------------------------
\* C9
\* ------------------------------------------------------------------------
IdeHdaDisk ==
  Node("disk", [device |-> "disk"],
       <<Leaf("target", [bus |-> "ide", dev |-> hda])>>, NoText)

\* the document holds one ide/hda disk and no other node a rule looks at
OnlyLegacyDiskBus(doc) ==
  /\ Len(xpath(doc, "disk")) = 1
  /\ GetAt(doc, xpath(doc, "disk")[1]) = IdeHdaDisk
  /\ \A tag \in {"interface", "video", "graphics", "cpu", "vcpu"} :
       xpath(doc, tag) = <<>>

DiskBusRecord == <<"disk_bus", <<"ide", hda>>, <<"virtio", vda>>>>

VirtioVdaDisk ==
  Node("disk", [device |-> "disk"],
       <<Leaf("target", [bus |-> "virtio", dev |-> vda])>>, NoText)

\* C9 as claimed: such a document comes back with bus = virtio, dev = vda
\* and a change list of exactly one disk_bus record.
C9_RuleIsolation ==
  (pc = "returned" /\ OnlyLegacyDiskBus(Input)) =>
    /\ GetAt(root, xpath(root, "disk")[1]) = VirtioVdaDisk
    /\ changes = <<DiskBusRecord>>

\* C9 as amended: such a document comes back with bus = virtio, dev = vda
\* and a change list of one disk_bus record followed by the cpu_mode and
\* cpu_topology records of the cpu node that is created, and no other record.
C9_RuleIsolationWithCpu ==
  (pc = "returned" /\ OnlyLegacyDiskBus(Input)) =>
    /\ GetAt(root, xpath(root, "disk")[1]) = VirtioVdaDisk
    /\ changes =
         <<DiskBusRecord,
           <<"cpu_mode", <<"default">>, <<"host-passthrough">>>>,
           <<"cpu_topology", <<"none">>,
             <<"1 socket x ", <<"1">>, " cores x 1 thread">>>>>>

C9_Witness ==
  /\ pc = "returned"
  /\ OnlyLegacyDiskBus(Input)
  /\ Len(returned) = 1
  /\ changes[1] = DiskBusRecord

\* ------------------------------------------------------------------------
\* C10
\* ------------------------------------------------------------------------
BusQualifies(disk) ==
  /\ "device" \in DOMAIN disk.attrs
  /\ disk.attrs["device"] = "disk"
  /\ HasKid(disk, "target")
  /\ "bus" \in DOMAIN FirstKid(disk, "target").attrs
  /\ FirstKid(disk, "target").attrs["bus"] \in {"ide", "sata", "scsi"}

IsDiskDevice(disk) ==
  "device" \in DOMAIN disk.attrs /\ disk.attrs["device"] = "disk"

\* the disk nodes of a document, in document order
DiskNodes(doc) ==
  [i \in 1..Len(xpath(doc, "disk")) |-> GetAt(doc, xpath(doc, "disk")[i])]

\* C10: once the disk rules have run, each disk whose device is 'disk' and
\* whose target has bus ide, sata or scsi has bus = virtio and accounts for
\* one disk_bus record; every other disk's target is as it was (bus, dev and
\* all), no disk_bus record stands for it, and a disk whose device is not
\* 'disk' is unchanged as a whole, driver included.
C10_DiskBusScope ==
  AfterDiskRules =>
    /\ Len(DiskNodes(root)) = Len(DiskNodes(Input))
    /\ \A i \in 1..Len(DiskNodes(Input)) :
         LET old == DiskNodes(Input)[i]
             new == DiskNodes(root)[i]
         IN  /\ BusQualifies(old) =>
                  FirstKid(new, "target").attrs["bus"] = "virtio"
             /\ (~BusQualifies(old) /\ HasKid(old, "target")) =>
                  FirstKid(new, "target") = FirstKid(old, "target")
             /\ HasKid(new, "target") <=> HasKid(old, "target")
             /\ ~IsDiskDevice(old) => new = old
    /\ Len(Only(changes, {"disk_bus"})) =
         Len(SelectSeq(DiskNodes(Input), BusQualifies))
    /\ Len(Only(changes, {"disk_cache"})) <=
         Len(SelectSeq(DiskNodes(Input),
                       LAMBDA d : IsDiskDevice(d) /\ HasKid(d, "driver")))

\* a cdrom on a legacy bus was left alone next to a disk that was upgraded
C10_Witness ==
  /\ pc = "returned"
  /\ \E i, j \in 1..Len(DiskNodes(Input)) :
       /\ BusQualifies(DiskNodes(Input)[i])
       /\ FirstKid(DiskNodes(root)[i], "target").attrs["bus"] = "virtio"
       /\ ~IsDiskDevice(DiskNodes(Input)[j])
       /\ FirstKid(DiskNodes(root)[j], "target").attrs["bus"] = "ide"
  /\ Len(Only(changes, {"disk_bus"})) = 1

\* ------------------------------------------------------------------------
\* C11
\* ------------------------------------------------------------------------
\* the device name as the rule is said to rewrite it
RewrittenDev(dev) ==
  IF Len(dev) >= 2 /\ (SubSeq(dev, 1, 2) = <<"h", "d">>
                       \/ SubSeq(dev, 1, 2) = <<"s", "d">>)
  THEN <<"v", "d">> \o SubSeq(dev, 3, Len(dev))
  ELSE dev

\* the targets of the disks disk_bus fires on, in document order
QualifyingTargets(doc) ==
  LET disks == SelectSeq(DiskNodes(doc), BusQualifies)
  IN  [i \in 1..Len(disks) |-> FirstKid(disks[i], "target")]

\* C11: once the disk rules have run, the target of every disk disk_bus
\* fired on has bus = virtio and, if it had a dev, that dev with a leading
\* hd or sd replaced by vd and nothing else changed (a dev with any other
\* prefix is as it was, a target without dev still has none); and each such
\* disk, whatever its prefix, has its one disk_bus record, which names the
\* disk's old bus and old dev.
C11_DevRewrite ==
  AfterDiskRules =>
    /\ \A i \in 1..Len(DiskNodes(Input)) :
         LET old == DiskNodes(Input)[i]
             new == DiskNodes(root)[i]
         IN  BusQualifies(old) =>
               LET was == FirstKid(old, "target").attrs
                   now == FirstKid(new, "target").attrs
               IN  /\ DOMAIN now = DOMAIN was
                   /\ now["bus"] = "virtio"
                   /\ "dev" \in DOMAIN was =>
                        now["dev"] = RewrittenDev(was["dev"])
    /\ Len(Only(changes, {"disk_bus"})) = Len(QualifyingTargets(Input))
    /\ \A k \in 1..Len(QualifyingTargets(Input)) :
         LET was == QualifyingTargets(Input)[k].attrs
         IN  Before(Only(changes, {"disk_bus"})[k]) =
               <<was["bus"], IF "dev" \in DOMAIN was THEN was["dev"] ELSE <<>>>>

\* a scsi disk named xvda was moved to virtio and kept its name, with its
\* one disk_bus record
C11_Witness ==
  /\ pc = "returned"
  /\ Len(DiskNodes(Input)) = 1
  /\ BusQualifies(DiskNodes(Input)[1])
  /\ FirstKid(DiskNodes(Input)[1], "target").attrs =
       [bus |-> "scsi", dev |-> xvda]
  /\ FirstKid(DiskNodes(root)[1], "target").attrs =
       [bus |-> "virtio", dev |-> xvda]
  /\ Keys(Only(changes, {"disk_bus"})) = <<"disk_bus">>

\* ------------------------------------------------------------------------
\* C12
\* ------------------------------------------------------------------------
TargetTriple == [cache |-> "writeback", discard |-> "unmap", io |-> "threads"]

\* at least one of cache, discard, io is absent or differs from the target
DriverDiffers(driver) ==
  \E k \in {"cache", "discard", "io"} :
    k \notin DOMAIN driver.attrs \/ driver.attrs[k] # TargetTriple[k]

\* how the record renders an attribute of the driver as it was
Rendered(driver, k) ==
  IF k \in DOMAIN driver.attrs THEN driver.attrs[k]
  ELSE IF k = "discard" THEN "none" ELSE "default"

\* the indices, among all disk nodes, of the disk-role disks with a driver
DriverDisks(doc) ==
  SelectSeq([i \in 1..Len(DiskNodes(doc)) |-> i],
            LAMBDA i : /\ IsDiskDevice(DiskNodes(doc)[i])
                       /\ HasKid(DiskNodes(doc)[i], "driver"))

\* C12: once the disk rules have run, the driver of a disk-role disk whose
\* cache, discard, io were not all writeback, unmap, threads (an absent one
\* counting as different) has exactly these three values, its other
\* attributes as before, and one disk_cache record whose before part shows
\* the old values, absent ones as default, none, default; a driver that
\* already matched is untouched and has no record.
C12_DiskCache ==
  AfterDiskRules =>
    LET idx == DriverDisks(Input)
        fired == SelectSeq(idx, LAMBDA i :
                   DriverDiffers(FirstKid(DiskNodes(Input)[i], "driver")))
        recs == Only(changes, {"disk_cache"})
    IN  /\ \A n \in 1..Len(idx) :
             LET old == FirstKid(DiskNodes(Input)[idx[n]], "driver")
                 new == FirstKid(DiskNodes(root)[idx[n]], "driver")
             IN  IF DriverDiffers(old)
                 THEN /\ DOMAIN new.attrs =
                           DOMAIN old.attrs \cup {"cache", "discard", "io"}
                      /\ \A k \in {"cache", "discard", "io"} :
                           new.attrs[k] = TargetTriple[k]
                      /\ new.kids = old.kids
                 ELSE new = old
        /\ Len(recs) = Len(fired)
        /\ \A n \in 1..Len(fired) :
             LET old == FirstKid(DiskNodes(Input)[fired[n]], "driver")
             IN  recs[n] =
                   <<"disk_cache",
                     <<Rendered(old, "cache"), Rendered(old, "discard"),
                       Rendered(old, "io")>>,
                     <<"writeback", "unmap", "threads">>>>

\* a driver that only lacked io was completed and recorded with io=default
C12_Witness ==
  /\ pc = "returned"
  /\ Len(DiskNodes(Input)) = 1
  /\ IsDiskDevice(DiskNodes(Input)[1])
  /\ HasKid(DiskNodes(Input)[1], "driver")
  /\ FirstKid(DiskNodes(Input)[1], "driver").attrs =
       [cache |-> "writeback", discard |-> "unmap"]
  /\ FirstKid(DiskNodes(root)[1], "driver").attrs = TargetTriple
  /\ Only(changes, {"disk_cache"}) =
       <<<<"disk_cache", <<"writeback", "unmap", "default">>,
           <<"writeback", "unmap", "threads">>>>>>

\* ------------------------------------------------------------------------
\* C13
\* ------------------------------------------------------------------------
NodesOf(doc, tag) ==
  [i \in 1..Len(xpath(doc, tag)) |-> GetAt(doc, xpath(doc, tag)[i])]

AfterNicRules == pc \in {"video", "spice", "cpu", "tostring", "returned"}

\* the interface has a model child whose type is one of the three old NICs
NicQualifies(iface) ==
  /\ HasKid(iface, "model")
  /\ "type" \in DOMAIN FirstKid(iface, "model").attrs
  /\ FirstKid(iface, "model").attrs["type"] \in {"rtl8139", "e1000", "e1000e"}

\* C13: once the NIC rule has run, every interface whose model type was
\* rtl8139, e1000 or e1000e has model type virtio and its one nic_model
\* record (old type, virtio), in document order; every other interface
\* (type virtio, another type, no type, no model) is as it was and has no
\* record.
C13_NicScope ==
  AfterNicRules =>
    LET olds == NodesOf(Input, "interface")
        news == NodesOf(root, "interface")
        fired == SelectSeq(olds, NicQualifies)
    IN  /\ Len(news) = Len(olds)
        /\ \A i \in 1..Len(olds) :
             IF NicQualifies(olds[i])
             THEN /\ HasKid(news[i], "model")
                  /\ FirstKid(news[i], "model").attrs = [type |-> "virtio"]
             ELSE news[i] = olds[i]
        /\ Only(changes, {"nic_model"}) =
             [n \in 1..Len(fired) |->
                <<"nic_model", <<FirstKid(fired[n], "model").attrs["type"]>>,
                  <<"virtio">>>>]

\* an e1000e interface was upgraded next to a virtio one that was left alone
C13_Witness ==
  /\ pc = "returned"
  /\ Len(NodesOf(Input, "interface")) = 2
  /\ \A i \in 1..2 : HasKid(NodesOf(Input, "interface")[i], "model")
  /\ FirstKid(NodesOf(Input, "interface")[1], "model").attrs =
       [type |-> "virtio"]
  /\ FirstKid(NodesOf(Input, "interface")[2], "model").attrs =
       [type |-> "e1000e"]
  /\ FirstKid(NodesOf(root, "interface")[2], "model").attrs =
       [type |-> "virtio"]
  /\ Only(changes, {"nic_model"}) =
       <<<<"nic_model", <<"e1000e">>, <<"virtio">>>>>>

\* ------------------------------------------------------------------------
\* C14
\* ------------------------------------------------------------------------
AfterSpiceRules == pc \in {"cpu", "tostring", "returned"}

IsSpice(graphics) ==
  "type" \in DOMAIN graphics.attrs /\ graphics.attrs["type"] = "spice"

GlEnabled(graphics) ==
  /\ HasKid(graphics, "gl")
  /\ "enable" \in DOMAIN FirstKid(graphics, "gl").attrs
  /\ FirstKid(graphics, "gl").attrs["enable"] = "yes"

\* C14: once the SPICE rule has run, every spice graphics node whose gl
\* sub-node was absent or not enabled has a gl sub-node with enable = yes,
\* with the rendernode it had or, if it had none, /dev/dri/renderD128, and
\* one spice_gl record; a spice graphics node whose gl was already enabled
\* is as it was (no rendernode added) and has no record; graphics nodes of
\* another type are as they were.
C14_SpiceGl ==
  AfterSpiceRules =>
    LET olds == NodesOf(Input, "graphics")
        news == NodesOf(root, "graphics")
        fired == SelectSeq(olds, LAMBDA g : IsSpice(g) /\ ~GlEnabled(g))
    IN  /\ Len(news) = Len(olds)
        /\ \A i \in 1..Len(olds) :
             IF IsSpice(olds[i]) /\ ~GlEnabled(olds[i])
             THEN /\ GlEnabled(news[i])
                  /\ "rendernode" \in DOMAIN FirstKid(news[i], "gl").attrs
                  /\ FirstKid(news[i], "gl").attrs["rendernode"] =
                       IF HasKid(olds[i], "gl")
                          /\ "rendernode" \in
                               DOMAIN FirstKid(olds[i], "gl").attrs
                       THEN FirstKid(olds[i], "gl").attrs["rendernode"]
                       ELSE "/dev/dri/renderD128"
                  /\ news[i].attrs = olds[i].attrs
             ELSE news[i] = olds[i]
        /\ Keys(Only(changes, {"spice_gl"})) =
             [n \in 1..Len(fired) |-> "spice_gl"]

\* a disabled gl was enabled and kept its own rendernode
C14_Witness ==
  /\ pc = "returned"
  /\ Len(NodesOf(Input, "graphics")) = 1
  /\ IsSpice(NodesOf(Input, "graphics")[1])
  /\ HasKid(NodesOf(Input, "graphics")[1], "gl")
  /\ FirstKid(NodesOf(Input, "graphics")[1], "gl").attrs =
       [enable |-> "no", rendernode |-> "/dev/dri/renderD129"]
  /\ FirstKid(NodesOf(root, "graphics")[1], "gl").attrs =
       [enable |-> "yes", rendernode |-> "/dev/dri/renderD129"]
  /\ Keys(Only(changes, {"spice_gl"})) = <<"spice_gl">>

\* ------------------------------------------------------------------------
\* C15
\* ------------------------------------------------------------------------
OptimizedDisk(d) ==
  IsDiskDevice(d) =>
    /\ HasKid(d, "target") =>
         /\ "bus" \in DOMAIN FirstKid(d, "target").attrs
         /\ FirstKid(d, "target").attrs["bus"] = "virtio"
    /\ HasKid(d, "driver") => ~DriverDiffers(FirstKid(d, "driver"))

OptimizedInterface(n) ==
  HasKid(n, "model") =>
    /\ "type" \in DOMAIN FirstKid(n, "model").attrs
    /\ FirstKid(n, "model").attrs["type"] = "virtio"

OptimizedVideo(v) ==
  HasKid(v, "model") =>
    /\ "type" \in DOMAIN FirstKid(v, "model").attrs
    /\ FirstKid(v, "model").attrs["type"] = "virtio"
    /\ HasKid(FirstKid(v, "model"), "acceleration")
    /\ Enabled3d(FirstKid(FirstKid(v, "model"), "acceleration"))

OptimizedGraphics(g) == IsSpice(g) => GlEnabled(g)

\* every node a rule looks at is in the rule's target state
AlreadyOptimized(doc) ==
  /\ \A i \in 1..Len(NodesOf(doc, "disk")) :
       OptimizedDisk(NodesOf(doc, "disk")[i])
  /\ \A i \in 1..Len(NodesOf(doc, "interface")) :
       OptimizedInterface(NodesOf(doc, "interface")[i])
  /\ \A i \in 1..Len(NodesOf(doc, "video")) :
       OptimizedVideo(NodesOf(doc, "video")[i])
  /\ \A i \in 1..Len(NodesOf(doc, "graphics")) :
       OptimizedGraphics(NodesOf(doc, "graphics")[i])
  /\ HasKid(doc, "cpu")
  /\ "mode" \in DOMAIN FirstKid(doc, "cpu").attrs
  /\ FirstKid(doc, "cpu").attrs["mode"] = "host-passthrough"
  /\ HasKid(FirstKid(doc, "cpu"), "topology")

\* the vcpu text, if there is a vcpu node with text, is an integer
VcpuTextReadable(doc) ==
  HasKid(doc, "vcpu") =>
    (FirstKid(doc, "vcpu").text = NoText \/ int(FirstKid(doc, "vcpu").text).ok)

\* C15: a call on a document in which every node a rule looks at is already
\* in the rule's target state records no change at any point, returns a
\* document equal to its input (same nodes, attributes, child order) with
\* an empty change list, and, its vcpu text being an integer or empty, does
\* not raise.
C15_AlreadyOptimized ==
  (pc # "parse" /\ AlreadyOptimized(Input)) =>
    /\ pc # "raised" => (changes = <<>> /\ root = Input)
    /\ VcpuTextReadable(Input) => pc # "raised"
    /\ pc = "returned" =>
         returned[Len(returned)] = <<[decl |-> TRUE, root |-> Input], <<>>>>

\* the first call got a document with an optimized disk, interface, video,
\* graphics and cpu, and returned it with no change
C15_Witness ==
  /\ pc = "returned"
  /\ Len(returned) = 1
  /\ AlreadyOptimized(Input)
  /\ \A tag \in {"disk", "interface", "video", "graphics", "vcpu"} :
       xpath(Input, tag) # <<>>
  /\ changes = <<>>
  /\ root = Input

\* ------------------------------------------------------------------------
\* C19
\* ------------------------------------------------------------------------
DevOf(target) ==
  IF "dev" \in DOMAIN target.attrs THEN target.attrs["dev"] ELSE <<>>

\* C19: once the disk rules have run, the k-th disk_bus record describes the
\* k-th disk the rule fired on: its before part is that disk's old bus and
\* old dev, its after part is virtio and the dev that disk's target now has
\* in the document (none if it has none).
C19_RecordOwnDisk ==
  AfterDiskRules =>
    /\ Len(Only(changes, {"disk_bus"})) = Len(QualifyingTargets(Input))
    /\ \A k \in 1..Len(QualifyingTargets(Input)) :
         LET i == SelectSeq([j \in 1..Len(DiskNodes(Input)) |-> j],
                            LAMBDA j : BusQualifies(DiskNodes(Input)[j]))[k]
             was == FirstKid(DiskNodes(Input)[i], "target")
             now == FirstKid(DiskNodes(root)[i], "target")
             rec == Only(changes, {"disk_bus"})[k]
         IN  /\ Before(rec) = <<was.attrs["bus"], DevOf(was)>>
             /\ After(rec) = <<"virtio", DevOf(now)>>

\* ------------------------------------------------------------------------
\* C20
\* ------------------------------------------------------------------------
\* C20: the returned document differs from the input exactly when the
\* returned change list is not empty, and every record of the list has a
\* before part different from its after part.
C20_ChangesMatchMutations ==
  pc = "returned" =>
    /\ (root # Input) <=> (changes # <<>>)
    /\ \A i \in 1..Len(changes) : Before(changes[i]) # After(changes[i])

\* a gl and an acceleration sub-node were created, and both are recorded
C20_Witness ==
  /\ pc = "returned"
  /\ Len(returned) = 1
  /\ root # Input
  /\ \E i \in 1..Len(NodesOf(Input, "graphics")) :
       /\ ~HasKid(NodesOf(Input, "graphics")[i], "gl")
       /\ HasKid(NodesOf(root, "graphics")[i], "gl")
  /\ \E i \in 1..Len(NodesOf(Input, "video")) :
       /\ HasKid(NodesOf(Input, "video")[i], "model")
       /\ ~HasKid(FirstKid(NodesOf(Input, "video")[i], "model"), "acceleration")
       /\ HasKid(FirstKid(NodesOf(root, "video")[i], "model"), "acceleration")
  /\ {"spice_gl", "video_accel"} \subseteq
       {Key(changes[i]) : i \in 1..Len(changes)}

\* ------------------------------------------------------------------------
\* The command line program: show_changes, apply_changes, main
\* ------------------------------------------------------------------------
MaxDiffLines == 52

DisplayCap == 50

OPTIMIZATIONS ==
  [disk_bus |->
     [desc |-> "Disk bus: IDE/SATA -> VirtIO",
      detail |-> "VirtIO disk provides ~3x throughput, lower CPU overhead, TRIM support"],
   disk_cache |->
     [desc |-> "Disk cache: -> writeback + discard=unmap + io=threads",
      detail |-> "Improves write performance and enables SSD TRIM passthrough"],
   nic_model |->
     [desc |-> "NIC model: rtl8139/e1000 -> VirtIO",
      detail |-> "VirtIO NIC provides ~10x throughput, lower latency"],
   video_model |->
     [desc |-> "Video: QXL/VGA -> VirtIO-GPU",
      detail |-> "Better Wayland support, enables 3D acceleration"],
   video_accel |->
     [desc |-> "3D acceleration: Enable",
      detail |-> "Hardware-accelerated graphics via host GPU"],
   spice_gl |->
     [desc |-> "SPICE GL: Enable with rendernode",
      detail |-> "GPU passthrough for display, reduces CPU usage"],
   cpu_mode |->
     [desc |-> "CPU mode: -> host-passthrough",
      detail |-> "Exposes full host CPU features to guest"],
   cpu_topology |->
     [desc |-> "CPU topology: Add cores/threads layout",
      detail |-> "Helps guest scheduler optimize thread placement"]]

\* OPTIMIZATIONS.get(key, {"desc": key, "detail": ""})
OPTIMIZATIONS_get(key) ==
  IF key \in DOMAIN OPTIMIZATIONS
  THEN OPTIMIZATIONS[key] ELSE [desc |-> key, detail |-> ""]

\* the items printed for the records, in the order of the list
RECURSIVE print_changes(_)
print_changes(chs) ==
  IF chs = <<>> THEN <<>>
  ELSE LET opt == OPTIMIZATIONS_get(Head(chs)[1])
       IN  <<[item |-> "change", desc |-> opt.desc, before |-> Head(chs)[2],
              after |-> Head(chs)[3], detail |-> opt.detail]>>
           \o print_changes(Tail(chs))

\* diff[:50]
diff_display(d) == SubSeq(d, 1, IF Len(d) < DisplayCap THEN Len(d) ELSE DisplayCap)

\* one printed item per line of diff_display
print_diff(d) == [i \in 1..Len(diff_display(d)) |-> [item |-> "line", text |-> d[i]]]

more_lines_at_cap(d) ==
  IF Len(d) >= DisplayCap
  THEN <<[item |-> "more", count |-> Len(d) - DisplayCap]>> ELSE <<>>

\* if len(diff) > 50: print(f"\n... ({len(diff) - 50} more lines)")
more_lines(d) ==
  IF Len(d) > DisplayCap
  THEN <<[item |-> "more", count |-> Len(d) - DisplayCap]>> ELSE <<>>

\* show_changes(changes, original_xml, optimized_xml), where d is what
\* unified_diff gave for the two documents: the value returned, the printed
\* items, and the local diff
show_changes(chs, d) ==
  IF chs = <<>>
  THEN [ret |-> FALSE, out |-> <<[item |-> "already_optimized"]>>, diff |-> <<>>]
  ELSE [ret |-> TRUE,
        out |-> <<[item |-> "proposed"]>> \o print_changes(chs)
                \o <<[item |-> "xml_diff"]>> \o print_diff(d)
                \o more_lines(d) \o <<[item |-> "rule"]>>,
        diff |-> d]

\* the lines unified_diff may give
Diffs == {[i \in 1..n |-> i] : n \in 0..MaxDiffLines}

UpperCase == <<"A", "B", "C", "D", "E", "F", "G", "H", "I", "J", "K", "L", "M",
               "N", "O", "P", "Q", "R", "S", "T", "U", "V", "W", "X", "Y", "Z">>

LowerCase == <<"a", "b", "c", "d", "e", "f", "g", "h", "i", "j", "k", "l", "m",
               "n", "o", "p", "q", "r", "s", "t", "u", "v", "w", "x", "y", "z">>

\* str.lower()
lower(s) ==
  [i \in 1..Len(s) |->
     IF \E k \in 1..Len(UpperCase) : UpperCase[k] = s[i]
     THEN LowerCase[CHOOSE k \in 1..Len(UpperCase) : UpperCase[k] = s[i]]
     ELSE s[i]]

accepted_or_empty == {<<"y">>, <<"y", "e", "s">>, <<>>}

\* ('y', 'yes')
accepted == {<<"y">>, <<"y", "e", "s">>}

\* the lines the confirmation prompt may read
Answers ==
  {<<"y">>, <<"y", "e", "s">>, <<"Y">>, <<"Y", "E", "S">>, <<"Y", "e", "s">>,
   <<" ", "y", " ">>, <<" ", "y", "e", "s">>, <<"n">>, <<"n", "o">>, <<>>,
   <<"y", "e">>, <<"y", "e", "s", "s">>}

Inputs ==
  {[kind |-> "line", line |-> a] : a \in Answers}
    \cup {[kind |-> k, line |-> <<>>] : k \in {"EOFError", "KeyboardInterrupt"}}

\* the documents libvirt may hold for the selected VM
MainDocs ==
  { Domain(<<Devices(<<Node("disk", [device |-> "disk"],
                            <<Leaf("target", [bus |-> "virtio", dev |-> vda]),
                              Leaf("driver", [cache |-> "writeback",
                                              discard |-> "unmap",
                                              io |-> "threads"])>>,
                            NoText)>>),
             Leaf("cpu", [mode |-> "host-passthrough"])>>),
    Domain(<<Devices(<<Node("disk", [device |-> "disk"],
                            <<Leaf("target", [bus |-> "ide", dev |-> hda])>>,
                            NoText)>>),
             Leaf("cpu", [mode |-> "host-passthrough"])>>),
    Domain(<<Devices(<<Node("disk", [device |-> "disk"],
                            <<Leaf("target", [bus |-> "sata"])>>, NoText)>>)>>),
    Domain(<<Devices(<<Node("interface", NoAttrs,
                            <<Leaf("model", [type |-> "e1000"])>>, NoText)>>)>>) }

ArgSets == [vm : BOOLEAN, dry_run : BOOLEAN, yes : BOOLEAN]

InitMain ==
  /\ mpc = "connect"
  /\ args \in ArgSets
  /\ persisted \in {[decl |-> FALSE, root |-> d] : d \in MainDocs}
  /\ MainLocals
  /\ pc = "idle"
  /\ xml_str = [decl |-> FALSE, root |-> None]
  /\ root = None
  /\ changes = <<>>
  /\ new_dev = Unbound
  /\ exc = NoExc
  /\ returned = <<>>

\* main ends: how, and with which status
Exit(kind, status) ==
  /\ mpc' = "exited"
  /\ exit' = [kind |-> kind, status |-> status]

\* conn.close(); return status
CloseAndReturn(status) ==
  /\ conn' = "closed"
  /\ closes' = closes + 1
  /\ Exit("return", status)

\* check_dependencies(); conn = connect_libvirt(args.uri)
Connect ==
  /\ mpc = "connect"
  /\ \E outcome \in {"connected", "missing_dependencies", "no_connection"} :
       IF outcome = "connected"
       THEN /\ conn' = "open"
            /\ mpc' = "select"
            /\ UNCHANGED exit
       ELSE /\ Exit("sys.exit", 1)
            /\ UNCHANGED conn
  /\ UNCHANGED <<args, closes, persisted, original_xml, has_changes, diff,
                 stdout, typed, confirm, defines, success>>
  /\ UNCHANGED callVars

\* vm_name = args.vm, or list_vms and select_vm
SelectVm ==
  /\ mpc = "select"
  /\ IF args.vm
     THEN /\ mpc' = "get_vm_xml"
          /\ UNCHANGED <<conn, closes, exit>>
     ELSE \E outcome \in {"selected", "None", "libvirtError"} :
            CASE outcome = "selected" ->
                   /\ mpc' = "get_vm_xml"
                   /\ UNCHANGED <<conn, closes, exit>>
              [] outcome = "None" -> CloseAndReturn(0)
              [] outcome = "libvirtError" ->
                   /\ Exit("exception", 1)
                   /\ UNCHANGED <<conn, closes>>
  /\ UNCHANGED <<args, persisted, original_xml, has_changes, diff, stdout,
                 typed, confirm, defines, success>>
  /\ UNCHANGED callVars

\* original_xml = get_vm_xml(conn, vm_name), then optimize_xml is called on it
GetVmXml ==
  /\ mpc = "get_vm_xml"
  /\ \E outcome \in {"XMLDesc", "libvirtError"} :
       IF outcome = "XMLDesc"
       THEN /\ original_xml' = persisted
            /\ xml_str' = persisted
            /\ pc' = "parse"
            /\ mpc' = "optimize_xml"
            /\ UNCHANGED exit
       ELSE /\ Exit("sys.exit", 1)
            /\ UNCHANGED <<original_xml, xml_str, pc>>
  /\ UNCHANGED <<args, conn, closes, persisted, has_changes, diff, stdout,
                 typed, confirm, defines, success>>
  /\ UNCHANGED <<root, changes, new_dev, exc, returned>>

\* what optimize_xml raised leaves main
Propagate ==
  /\ mpc = "optimize_xml"
  /\ pc = "raised"
  /\ Exit("exception", 1)
  /\ UNCHANGED <<args, conn, closes, persisted, original_xml, has_changes,
                 diff, stdout, typed, confirm, defines, success>>
  /\ UNCHANGED callVars

\* has_changes = show_changes(changes, original_xml, optimized_xml)
ShowChanges ==
  /\ mpc = "optimize_xml"
  /\ pc = "returned"
  /\ \E d \in Diffs :
       LET shown == show_changes(returned[Len(returned)][2], d)
       IN  /\ has_changes' = shown.ret
           /\ stdout' = shown.out
           /\ diff' = shown.diff
  /\ mpc' = "has_changes"
  /\ UNCHANGED <<args, conn, closes, persisted, original_xml, typed, confirm,
                 defines, success, exit>>
  /\ UNCHANGED callVars

\* if not has_changes: conn.close(); return 0
NoChanges ==
  /\ mpc = "has_changes"
  /\ ~has_changes
  /\ CloseAndReturn(0)
  /\ UNCHANGED <<args, persisted, original_xml, has_changes, diff, stdout,
                 typed, confirm, defines, success>>
  /\ UNCHANGED callVars

\* if args.dry_run: conn.close(); return 0
DryRun ==
  /\ mpc = "has_changes"
  /\ has_changes
  /\ args.dry_run
  /\ CloseAndReturn(0)
  /\ UNCHANGED <<args, persisted, original_xml, has_changes, diff, stdout,
                 typed, confirm, defines, success>>
  /\ UNCHANGED callVars

\* --yes skips the prompt
SkipConfirm ==
  /\ mpc = "has_changes"
  /\ has_changes
  /\ ~args.dry_run
  /\ args.yes
  /\ mpc' = "apply_changes"
  /\ UNCHANGED <<args, conn, closes, persisted, original_xml, has_changes,
                 diff, stdout, typed, confirm, defines, success, exit>>
  /\ UNCHANGED callVars

\* confirm = input("Apply these changes? [y/N]: ").strip().lower()
Confirm ==
  /\ mpc = "has_changes"
  /\ has_changes
  /\ ~args.dry_run
  /\ ~args.yes
  /\ \E in \in Inputs :
       /\ typed' = in
       /\ IF in.kind = "line"
          THEN /\ confirm' = lower(strip(in.line))
               /\ IF confirm' \notin accepted
                  THEN CloseAndReturn(0)
                  ELSE /\ mpc' = "apply_changes"
                       /\ UNCHANGED <<conn, closes, exit>>
          ELSE /\ CloseAndReturn(0)
               /\ UNCHANGED confirm
  /\ UNCHANGED <<args, persisted, original_xml, has_changes, diff, stdout,
                 defines, success>>
  /\ UNCHANGED callVars

\* success = apply_changes(conn, vm_name, optimized_xml)
ApplyChanges ==
  /\ mpc = "apply_changes"
  /\ LET optimized_xml == returned[Len(returned)][1]
     IN  \E outcome \in {"lookupByName libvirtError", "isActive libvirtError",
                         "defineXML libvirtError", "defined"} :
           CASE outcome \in {"lookupByName libvirtError",
                             "isActive libvirtError"} ->
                  /\ success' = FALSE
                  /\ UNCHANGED <<defines, persisted>>
             [] outcome = "defineXML libvirtError" ->
                  /\ defines' = Append(defines, optimized_xml)
                  /\ success' = FALSE
                  /\ UNCHANGED persisted
             [] outcome = "defined" ->
                  /\ defines' = Append(defines, optimized_xml)
                  /\ persisted' = optimized_xml
                  /\ success' = TRUE
  /\ mpc' = "close"
  /\ UNCHANGED <<args, conn, closes, original_xml, has_changes, diff, stdout,
                 typed, confirm, exit>>
  /\ UNCHANGED callVars

exit_status_zero(ok) == 0

\* 0 if success else 1
exit_status(ok) == IF ok THEN 0 ELSE 1

\* conn.close(); return 0 if success else 1
Close ==
  /\ mpc = "close"
  /\ CloseAndReturn(exit_status(success))
  /\ UNCHANGED <<args, persisted, original_xml, has_changes, diff, stdout,
                 typed, confirm, defines, success>>
  /\ UNCHANGED callVars

NextMain ==
  \/ Connect
  \/ SelectVm
  \/ GetVmXml
  \/ Parse
  \/ DiskRules
  \/ NicRules
  \/ VideoRules
  \/ SpiceRules
  \/ CpuRules
  \/ Return
  \/ Propagate
  \/ ShowChanges
  \/ NoChanges
  \/ DryRun
  \/ SkipConfirm
  \/ Confirm
  \/ ApplyChanges
  \/ Close

SpecMain == InitMain /\ [][NextMain]_vars

TypeOKMain ==
  /\ mpc \in {"connect", "select", "get_vm_xml", "optimize_xml", "has_changes",
              "apply_changes", "close", "exited"}
  /\ conn \in {"none", "open", "closed"}
  /\ closes \in 0..1
  /\ exit.kind \in {"running", "return", "sys.exit", "exception"}
  /\ exit.status \in {0, 1}
  /\ Len(defines) <= 1
  /\ Len(diff) <= MaxDiffLines

\* ------------------------------------------------------------------------
\* Properties of the command line program
\* ------------------------------------------------------------------------
\* show_changes has been called in this run
Shown == mpc \in {"has_changes", "apply_changes", "close", "exited"} /\ stdout # <<>>

\* the change list main passed to show_changes
GivenChanges == returned[Len(returned)][2]

\* the printed items of one kind, in the order printed
Printed(kind) == SelectSeq(stdout, LAMBDA x : x.item = kind)

\* C16: when the change list is empty show_changes prints only "already
\* optimized", computes no diff and returns False; when it is non-empty it
\* lists every record in the given order, prints the first lines of the diff
\* and at most 50 of them, prints the "(N more lines)" marker exactly when the
\* diff has more than 50 lines, with N the diff length minus 50, and returns
\* True
C16_ChangeReporting ==
  Shown =>
    IF GivenChanges = <<>>
    THEN /\ has_changes = FALSE
         /\ stdout = <<[item |-> "already_optimized"]>>
         /\ diff = <<>>
    ELSE /\ has_changes = TRUE
         /\ Printed("already_optimized") = <<>>
         /\ Len(Printed("change")) = Len(GivenChanges)
         /\ \A i \in 1..Len(GivenChanges) :
              /\ Printed("change")[i].desc = OPTIMIZATIONS[Key(GivenChanges[i])].desc
              /\ Printed("change")[i].before = Before(GivenChanges[i])
              /\ Printed("change")[i].after = After(GivenChanges[i])
         /\ Len(Printed("line")) <= 50
         /\ Len(Printed("line")) = IF Len(diff) > 50 THEN 50 ELSE Len(diff)
         /\ \A i \in 1..Len(Printed("line")) : Printed("line")[i].text = diff[i]
         /\ Len(Printed("more")) = IF Len(diff) > 50 THEN 1 ELSE 0
         /\ \A i \in 1..Len(Printed("more")) :
              Printed("more")[i].count = Len(diff) - 50

\* a diff of 52 lines was shown for three records: 50 lines and "(2 more lines)"
C16_Witness ==
  /\ Shown
  /\ Len(GivenChanges) = 3
  /\ Len(diff) = 52
  /\ Len(Printed("line")) = 50
  /\ Printed("more") = <<[item |-> "more", count |-> 2]>>
  /\ has_changes

\* defineXML was called and the configuration libvirt holds is not the
\* document it was called with
DefineFailed == defines # <<>> /\ persisted # defines[1]

\* one step of a run: at most one defineXML; apply_changes returns without
\* raising, leaves what optimize_xml returned alone and returns False when
\* defineXML failed; then the connection is closed and main returns 1 exactly
\* when failed holds, and 0 wherever else it returns
CommitStep(failed) ==
  /\ Len(defines') <= 1
  /\ mpc = "apply_changes" =>
       /\ mpc' = "close"
       /\ exit' = Running
       /\ returned' = returned
       /\ DefineFailed' => success' = FALSE
  /\ mpc = "close" =>
       /\ conn' = "closed"
       /\ returned' = returned
       /\ exit'.kind = "return"
       /\ exit'.status = IF failed THEN 1 ELSE 0
  /\ (mpc # "close" /\ exit.kind = "running" /\ exit'.kind = "return") =>
       exit'.status = 0

\* C17 as stated: defineXML is attempted at most once; when it fails
\* apply_changes returns False without raising, the optimized document and the
\* records are unchanged, the connection is closed and main returns 1; main
\* returns 0 on every other path on which it returns
C17_ExitOneOnlyOnDefineFailure == [][CommitStep(DefineFailed)]_vars

\* C17, amended: main returns 1 exactly when apply_changes returned False,
\* which it also does when lookupByName or isActive fails before defineXML is
\* attempted
C17_ExitOneOnApplyFailure == [][CommitStep(~success)]_vars

\* defineXML was attempted once and failed: main returned 1, the connection is
\* closed, libvirt still holds the original configuration
C17_Witness ==
  /\ exit = [kind |-> "return", status |-> 1]
  /\ Len(defines) = 1
  /\ DefineFailed
  /\ persisted = original_xml
  /\ conn = "closed"
  /\ returned[1][1] = defines[1]

\* apply_changes was called in this run
Applied ==
  \/ mpc \in {"apply_changes", "close"}
  \/ defines # <<>>
  \/ exit = [kind |-> "return", status |-> 1]

YesSpellings ==
  {<<c>> : c \in {"y", "Y"}}
    \cup {<<c1, c2, c3>> : c1 \in {"y", "Y"}, c2 \in {"e", "E"}, c3 \in {"s", "S"}}

\* line is y or yes in any case, with any blanks around it
SaysYes(line) ==
  \E i, j \in 1..Len(line) :
    /\ i <= j
    /\ SubSeq(line, i, j) \in YesSpellings
    /\ \A k \in 1..Len(line) : (k < i \/ k > j) => line[k] = " "

\* the commit gate, where Yes is the set of answers taken as consent
CommitGate(Yes) ==
  /\ Applied =>
       /\ GivenChanges # <<>>
       /\ ~args.dry_run
       /\ args.yes \/ (typed.kind = "line" /\ typed.line \in Yes)
  /\ (exit.kind = "return" /\ Shown
        /\ \/ GivenChanges = <<>>
           \/ args.dry_run
           \/ typed.kind \in {"EOFError", "KeyboardInterrupt"}
           \/ typed.kind = "line" /\ typed.line \notin Yes) =>
       /\ exit.status = 0
       /\ defines = <<>>
       /\ persisted = original_xml
  /\ exit.kind = "return" => closes = 1 /\ conn = "closed"
  /\ exit.kind = "running" => closes = 0
  /\ closes <= 1

\* C18 as stated: apply_changes is called only if the change list is
\* non-empty, --dry-run is not set, and --yes was given or the answer was 'y'
\* or 'yes'; an empty list, a dry run, any other answer, EOF or an interrupt
\* end the run with status 0 and no commit; wherever main returns after
\* connecting the connection was closed exactly once
C18_GateOnExactAnswer == CommitGate({<<"y">>, <<"y", "e", "s">>})

\* C18, amended: the answer is compared after its surrounding blanks are
\* removed and it is lower-cased
C18_GateOnNormalizedAnswer == CommitGate({a \in Answers : SaysYes(a)})

\* the answer " yes" was given without --yes, the configuration was replaced,
\* and main returned 0 with the connection closed once
C18_Witness ==
  /\ ~args.yes
  /\ typed = [kind |-> "line", line |-> <<" ", "y", "e", "s">>]
  /\ Len(defines) = 1
  /\ persisted = defines[1]
  /\ exit = [kind |-> "return", status |-> 0]
  /\ closes = 1

====
